---- MODULE Spec2Model ----
(* The MP3 light show sketch (MP3LightShow.ino) as a state machine: the    *)
(* main loop (serial byte, timer update, auto-start), lightShow_Start and  *)
(* the stage callbacks, the laser flicker helper, and the one-shot timer   *)
(* the sketch registers its stages with.                                   *)
EXTENDS Integers, Sequences, FiniteSets, TLC

(* ---------------------------------------------------------------------- *)
(* Bounds of the model                                                     *)
(* ---------------------------------------------------------------------- *)
MaxTime == 300000      \* Tick does not advance the clock beyond this (ms)
MaxV == 1              \* number of 'v' bytes the serial line delivers
MaxPulses == 6         \* largest pulses argument tried on laserFlicker
Lookahead == 2         \* Tick passes at most this many pending deadlines at once

(* ---------------------------------------------------------------------- *)
(* Program constants                                                       *)
(* ---------------------------------------------------------------------- *)
laser == 5
led == 9
stage1 == 7000         \* lasers warm up
stage2 == 27500        \* led on
stage3 == 40000        \* lasers on
stage4 == 44000        \* pause all
stage5 == 45000        \* resume all
stage6 == 58000        \* led off
stage7 == 110000       \* lasers off
stage8 == 140000       \* start second track
KeyV == 118            \* the byte 'v'
KeyS == 115            \* the byte 's'
NoKey == -1            \* no byte was read

HIGH == "HIGH"
LOW == "LOW"

\* Bytes the serial line may deliver.
Bytes == {KeyV, KeyS}
\* Status codes MP3player.playMP3 may return (uint8_t; 0 is success).
StatusCodes == {0, 1, 2}

VARIABLES
  now,                  \* millis()
  pc,                   \* position of the main loop
  isLightShowPlaying,
  isAutoStartEnabled,
  pins,                 \* level of the laser and led output pins
  events,               \* the timer's pending events, in registration order
  key,                  \* the byte Serial.read() gave the last step, or NoKey
  result,               \* status of the playMP3 call of the last step (0: none, or success)
  out,                  \* pin writes and delays made by the last step
  hist,                 \* history: playMP3 calls, registrations, firings
  shows,                \* history: the time of each lightShow_Start call
  vCount,               \* number of 'v' bytes read so far
  pulses                \* argument of laserFlicker (flicker specification)

vars == <<now, pc, isLightShowPlaying, isAutoStartEnabled, pins, events,
          key, result, out, hist, shows, vCount, pulses>>

(* The part of the state the sketch's functions read and write, at the     *)
(* start of a step.                                                        *)
Cur ==
  [now |-> now, isLightShowPlaying |-> isLightShowPlaying, pins |-> pins,
   events |-> events, result |-> 0, out |-> <<>>, hist |-> hist,
   shows |-> shows]

Commit(m) ==
  /\ now' = m.now
  /\ isLightShowPlaying' = m.isLightShowPlaying
  /\ pins' = m.pins
  /\ events' = m.events
  /\ result' = m.result
  /\ out' = m.out
  /\ hist' = m.hist
  /\ shows' = m.shows

(* ---------------------------------------------------------------------- *)
(* Arduino primitives                                                      *)
(* ---------------------------------------------------------------------- *)
(* The statements digitalWrite(pin, level) and delay(ms).                  *)
digitalWrite(pin, level) == [op |-> "write", pin |-> pin, level |-> level, ms |-> 0]

delay(ms) == [op |-> "delay", pin |-> 0, level |-> "-", ms |-> ms]

(* Total of the delays among stmts[lo..hi].                                *)
RECURSIVE Blocked(_, _, _)
Blocked(stmts, lo, hi) ==
  IF lo > hi THEN 0
  ELSE IF lo = hi THEN stmts[lo].ms
  ELSE LET h == (lo + hi) \div 2
       IN  Blocked(stmts, lo, h) + Blocked(stmts, h + 1, hi)

(* The level pin p is left at by stmts: that of the last write to p, or    *)
(* the level it had when no statement writes p.                            *)
LevelAfter(stmts, p, before) ==
  LET W == {i \in 1..Len(stmts) : stmts[i].op = "write" /\ stmts[i].pin = p}
  IN  IF W = {} THEN before
      ELSE stmts[CHOOSE i \in W : \A j \in W : j <= i].level

(* The statements of stmts executed in order: each write sets its pin,     *)
(* each delay blocks while the clock runs on; all are recorded in out.     *)
Run(m, stmts) ==
  [m EXCEPT !.pins = [p \in DOMAIN @ |-> LevelAfter(stmts, p, @[p])],
            !.now = @ + Blocked(stmts, 1, Len(stmts)),
            !.out = @ \o stmts]

(* MP3player.playMP3(trackName, 0) returning status st.                    *)
playMP3(m, trackName, offset, show, st) ==
  [m EXCEPT !.result = st,
            !.hist = Append(@, [op |-> "playMP3", show |-> show,
                                what |-> trackName, n |-> offset])]

(* ---------------------------------------------------------------------- *)
(* laserFlicker: the statements it executes for a given pulses argument    *)
(* ---------------------------------------------------------------------- *)
flickerPulse ==
  << digitalWrite(laser, HIGH), delay(25),
     digitalWrite(laser, LOW), delay(50),
     digitalWrite(laser, HIGH), delay(25),
     digitalWrite(laser, LOW), delay(50),
     digitalWrite(laser, HIGH), delay(25),
     digitalWrite(laser, LOW), delay(150) >>

(* Mutant: the loop runs once too often (i <= pulses).                     *)
RECURSIVE laserFlickerFrom_OffByOne(_, _)
laserFlickerFrom_OffByOne(i, n) ==
  IF i <= n THEN flickerPulse \o laserFlickerFrom_OffByOne(i + 1, n) ELSE <<>>

RECURSIVE laserFlickerFrom(_, _)
laserFlickerFrom(i, n) ==
  IF i < n THEN flickerPulse \o laserFlickerFrom(i + 1, n) ELSE <<>>

laserFlicker(n) == laserFlickerFrom(0, n)

(* ---------------------------------------------------------------------- *)
(* Stage callbacks                                                         *)
(* ---------------------------------------------------------------------- *)
(* Mutant: the two one-second holds are typed with a zero too many.       *)
lightShow_LasersWarmup_LongHolds(m) ==
  Run(m, laserFlicker(3) \o << delay(10000) >>
      \o laserFlicker(2) \o << delay(500) >>
      \o laserFlicker(5) \o << delay(200) >>
      \o laserFlicker(2) \o << delay(500) >>
      \o laserFlicker(2) \o << delay(50) >>
      \o << digitalWrite(laser, HIGH), delay(10000) >>
      \o laserFlicker(3) \o << delay(500) >>
      \o laserFlicker(3) \o << digitalWrite(laser, HIGH) >>
      \o laserFlicker(3) \o << digitalWrite(laser, HIGH) >>)

lightShow_LasersWarmup(m) ==
  Run(m, laserFlicker(3) \o << delay(1000) >>
      \o laserFlicker(2) \o << delay(500) >>
      \o laserFlicker(5) \o << delay(200) >>
      \o laserFlicker(2) \o << delay(500) >>
      \o laserFlicker(2) \o << delay(50) >>
      \o << digitalWrite(laser, HIGH), delay(1000) >>
      \o laserFlicker(3) \o << delay(500) >>
      \o laserFlicker(3) \o << digitalWrite(laser, HIGH) >>
      \o laserFlicker(3) \o << digitalWrite(laser, HIGH) >>)

lightShow_LasersOn(m) == Run(m, << digitalWrite(laser, HIGH) >>)

lightShow_LEDOn(m) == Run(m, << digitalWrite(led, HIGH) >>)

lightShow_LEDOff(m) == Run(m, << digitalWrite(led, LOW) >>)

(* Mutant: the pause stage clears the flag, as the stop stage does.        *)
lightShow_Pause_ClearsFlag(m) ==
  Run([m EXCEPT !.isLightShowPlaying = FALSE],
      << digitalWrite(laser, LOW), digitalWrite(led, LOW) >>)

lightShow_Pause(m) == Run(m, << digitalWrite(laser, LOW), digitalWrite(led, LOW) >>)

(* Mutant: the stop stage switches the pins off but keeps the flag.        *)
lightShow_Stop_KeepsFlag(m) ==
  Run(m, << digitalWrite(laser, LOW), digitalWrite(led, LOW) >>)

lightShow_Stop(m) ==
  Run([m EXCEPT !.isLightShowPlaying = FALSE],
      << digitalWrite(laser, LOW), digitalWrite(led, LOW) >>)

(* Mutant: the copied track name was left at track001.mp3.                 *)
lightShow_PlayTrack2_Track1(m, show, st) ==
  playMP3(m, "track001.mp3", 0, show, st)

lightShow_PlayTrack2(m, show, st) == playMP3(m, "track002.mp3", 0, show, st)

(* ---------------------------------------------------------------------- *)
(* The timer (Timer t): one-shot events, polled by update                  *)
(* ---------------------------------------------------------------------- *)
(* The call t.after(period, callback).                                      *)
after(period, callback) == [period |-> period, callback |-> callback]

(* The calls of regs made in order at time m.now: each adds a pending      *)
(* event that is due once its period has passed since the call. show and   *)
(* stage only label the event for the history.                             *)
Register(m, regs) ==
  [m EXCEPT !.events = @ \o [i \in 1..Len(regs) |->
                               [show |-> Len(m.shows), stage |-> i,
                                callback |-> regs[i].callback,
                                lastEventTime |-> m.now,
                                period |-> regs[i].period]],
            !.hist = @ \o [i \in 1..Len(regs) |->
                             [op |-> "after", show |-> Len(m.shows),
                              what |-> regs[i].callback, n |-> regs[i].period]]]

Deadline(e) == e.lastEventTime + e.period

IsDue(e, t) == t - e.lastEventTime >= e.period

(* Index of the event of evs to fire first among the indices in S:         *)
(* earliest deadline, ties broken by registration order.                   *)
First(evs, S) ==
  CHOOSE i \in S : \A j \in S :
    \/ Deadline(evs[i]) < Deadline(evs[j])
    \/ (Deadline(evs[i]) = Deadline(evs[j]) /\ i <= j)

RECURSIVE DueOrder(_, _)
DueOrder(evs, S) ==
  IF S = {} THEN <<>>
  ELSE LET i == First(evs, S) IN <<evs[i]>> \o DueOrder(evs, S \ {i})

Remove(evs, e) == SelectSeq(evs, LAMBDA x : x # e)

Call(m, e, st) ==
  CASE e.callback = "lightShow_LasersWarmup" -> lightShow_LasersWarmup(m)
    [] e.callback = "lightShow_LasersOn" -> lightShow_LasersOn(m)
    [] e.callback = "lightShow_LEDOn" -> lightShow_LEDOn(m)
    [] e.callback = "lightShow_LEDOff" -> lightShow_LEDOff(m)
    [] e.callback = "lightShow_Pause" -> lightShow_Pause(m)
    [] e.callback = "lightShow_Stop" -> lightShow_Stop(m)
    [] e.callback = "lightShow_PlayTrack2" -> lightShow_PlayTrack2(m, e.show, st)

Fire(m, e, st) ==
  LET a == [m EXCEPT !.events = Remove(@, e),
                     !.hist = Append(@, [op |-> "fire", show |-> e.show,
                                         what |-> e.callback, n |-> e.period])]
  IN  Call(a, e, st)

RECURSIVE FireAll(_, _, _)
FireAll(m, due, st) ==
  IF due = <<>> THEN m ELSE FireAll(Fire(m, Head(due), st), Tail(due), st)

(* t.update(): every event that is due at the time of the call fires once, *)
(* and is then discarded.                                                  *)
update(m, st) ==
  LET S == {i \in 1..Len(m.events) : IsDue(m.events[i], m.now)}
  IN  FireAll(m, DueOrder(m.events, S), st)

(* ---------------------------------------------------------------------- *)
(* lightShow_Start and parse_menu                                          *)
(* ---------------------------------------------------------------------- *)
(* Mutant: a failed playMP3 makes lightShow_Start return early.            *)
lightShow_Start_AbortOnError(m, st) ==
  LET a == [m EXCEPT !.isLightShowPlaying = TRUE, !.shows = Append(@, m.now)]
      b == playMP3(a, "track001.mp3", 0, Len(a.shows), st)
  IN  IF st # 0 THEN b
      ELSE Register(b, << after(stage1, "lightShow_LasersWarmup"),
                          after(stage2, "lightShow_LEDOn"),
                          after(stage3, "lightShow_LasersOn"),
                          after(stage4, "lightShow_Pause"),
                          after(stage5, "lightShow_LEDOn"),
                          after(stage5, "lightShow_LasersOn"),
                          after(stage6, "lightShow_LEDOff"),
                          after(stage7, "lightShow_Stop"),
                          after(stage8, "lightShow_PlayTrack2") >>)

(* Mutant: the two stage5 events are registered in the other order.        *)
lightShow_Start_ResumeSwapped(m, st) ==
  LET a == [m EXCEPT !.isLightShowPlaying = TRUE, !.shows = Append(@, m.now)]
      b == playMP3(a, "track001.mp3", 0, Len(a.shows), st)
  IN  Register(b, << after(stage1, "lightShow_LasersWarmup"),
                     after(stage2, "lightShow_LEDOn"),
                     after(stage3, "lightShow_LasersOn"),
                     after(stage4, "lightShow_Pause"),
                     after(stage5, "lightShow_LasersOn"),
                     after(stage5, "lightShow_LEDOn"),
                     after(stage6, "lightShow_LEDOff"),
                     after(stage7, "lightShow_Stop"),
                     after(stage8, "lightShow_PlayTrack2") >>)

(* Mutant: the warmup stage is registered with a digit of stage1 missing.  *)
lightShow_Start_ShortWarmup(m, st) ==
  LET a == [m EXCEPT !.isLightShowPlaying = TRUE, !.shows = Append(@, m.now)]
      b == playMP3(a, "track001.mp3", 0, Len(a.shows), st)
  IN  Register(b, << after(stage1 \div 10, "lightShow_LasersWarmup"),
                     after(stage2, "lightShow_LEDOn"),
                     after(stage3, "lightShow_LasersOn"),
                     after(stage4, "lightShow_Pause"),
                     after(stage5, "lightShow_LEDOn"),
                     after(stage5, "lightShow_LasersOn"),
                     after(stage6, "lightShow_LEDOff"),
                     after(stage7, "lightShow_Stop"),
                     after(stage8, "lightShow_PlayTrack2") >>)

(* Mutant: the registration of the stop stage is missing.                  *)
lightShow_Start_NoStop(m, st) ==
  LET a == [m EXCEPT !.isLightShowPlaying = TRUE, !.shows = Append(@, m.now)]
      b == playMP3(a, "track001.mp3", 0, Len(a.shows), st)
  IN  Register(b, << after(stage1, "lightShow_LasersWarmup"),
                     after(stage2, "lightShow_LEDOn"),
                     after(stage3, "lightShow_LasersOn"),
                     after(stage4, "lightShow_Pause"),
                     after(stage5, "lightShow_LEDOn"),
                     after(stage5, "lightShow_LasersOn"),
                     after(stage6, "lightShow_LEDOff"),
                     after(stage8, "lightShow_PlayTrack2") >>)

lightShow_Start(m, st) ==
  LET a == [m EXCEPT !.isLightShowPlaying = TRUE, !.shows = Append(@, m.now)]
      b == playMP3(a, "track001.mp3", 0, Len(a.shows), st)
  IN  Register(b, << after(stage1, "lightShow_LasersWarmup"),
                     after(stage2, "lightShow_LEDOn"),
                     after(stage3, "lightShow_LasersOn"),
                     after(stage4, "lightShow_Pause"),
                     after(stage5, "lightShow_LEDOn"),
                     after(stage5, "lightShow_LasersOn"),
                     after(stage6, "lightShow_LEDOff"),
                     after(stage7, "lightShow_Stop"),
                     after(stage8, "lightShow_PlayTrack2") >>)

(* Mutant: the test of the byte is missing.                                *)
parse_menu_AnyKey(m, key_command, st) == lightShow_Start(m, st)

parse_menu(m, key_command, st) ==
  IF key_command = KeyV THEN lightShow_Start(m, st) ELSE m

(* ---------------------------------------------------------------------- *)
(* The main loop                                                           *)
(* ---------------------------------------------------------------------- *)
Init ==
  /\ now = 0
  /\ pc = "serial"
  /\ isLightShowPlaying = FALSE
  /\ isAutoStartEnabled = TRUE
  /\ pins = [p \in {laser, led} |-> LOW]
  /\ events = <<>>
  /\ key = NoKey
  /\ result = 0
  /\ out = <<>>
  /\ hist = <<>>
  /\ shows = <<>>
  /\ vCount = 0
  /\ pulses = 0

(* The step made no call: nothing is dispatched, written or played.        *)
Quiet ==
  /\ key' = NoKey
  /\ result' = 0
  /\ out' = <<>>

(* Serial.available() is true and the byte read is dispatched. A status   *)
(* is drawn when the dispatch calls playMP3.                               *)
ReadByte ==
  /\ pc = "serial"
  /\ \E b \in Bytes :
       /\ b = KeyV => vCount < MaxV
       /\ vCount' = IF b = KeyV THEN vCount + 1 ELSE vCount
       /\ key' = b
       /\ \E st \in (IF b = KeyV THEN StatusCodes ELSE {0}) :
            Commit(parse_menu(Cur, b, st))
  /\ pc' = "update"
  /\ UNCHANGED <<isAutoStartEnabled, pulses>>

(* Mutant: an iteration without a byte returns before t.update().          *)
NoByte_SkipsUpdate ==
  /\ pc = "serial"
  /\ pc' = "auto"
  /\ Quiet
  /\ UNCHANGED <<now, isLightShowPlaying, isAutoStartEnabled, pins, events,
                 hist, shows, vCount, pulses>>

(* Serial.available() is false.                                            *)
NoByte ==
  /\ pc = "serial"
  /\ pc' = "update"
  /\ Quiet
  /\ UNCHANGED <<now, isLightShowPlaying, isAutoStartEnabled, pins, events,
                 hist, shows, vCount, pulses>>

(* t.update(). A status is drawn when a callback that fires calls playMP3. *)
Update ==
  /\ pc = "update"
  /\ \E st \in (IF \E i \in 1..Len(events) :
                     /\ IsDue(events[i], now)
                     /\ events[i].callback = "lightShow_PlayTrack2"
                THEN StatusCodes ELSE {0}) :
       Commit(update(Cur, st))
  /\ pc' = "auto"
  /\ key' = NoKey
  /\ UNCHANGED <<isAutoStartEnabled, vCount, pulses>>

(* Mutant: the auto-start branch does not clear isAutoStartEnabled.        *)
AutoStart_KeepsFlag ==
  /\ pc = "auto"
  /\ isLightShowPlaying = FALSE /\ isAutoStartEnabled = TRUE
  /\ \E st \in StatusCodes : Commit(lightShow_Start(Cur, st))
  /\ pc' = "serial"
  /\ key' = NoKey
  /\ UNCHANGED <<isAutoStartEnabled, vCount, pulses>>

(* The auto-start branch of loop(), taken.                                 *)
AutoStart ==
  /\ pc = "auto"
  /\ isLightShowPlaying = FALSE /\ isAutoStartEnabled = TRUE
  /\ \E st \in StatusCodes : Commit(lightShow_Start(Cur, st))
  /\ isAutoStartEnabled' = FALSE
  /\ pc' = "serial"
  /\ key' = NoKey
  /\ UNCHANGED <<vCount, pulses>>

(* The auto-start branch of loop(), not taken.                             *)
AutoSkip ==
  /\ pc = "auto"
  /\ ~(isLightShowPlaying = FALSE /\ isAutoStartEnabled = TRUE)
  /\ pc' = "serial"
  /\ Quiet
  /\ UNCHANGED <<now, isLightShowPlaying, isAutoStartEnabled, pins, events,
                 hist, shows, vCount, pulses>>

(* Time passes between two iterations of loop(), up to the deadline of a  *)
(* pending event: the next one, or a later one, which leaves the earlier   *)
(* ones overdue at the next update. The loop has run since the last gap:   *)
(* no pending event is overdue already.                                    *)
PendingDeadlines ==
  {t \in {Deadline(events[i]) : i \in 1..Len(events)} : t > now}

Tick ==
  /\ pc = "serial"
  /\ \A i \in 1..Len(events) : ~IsDue(events[i], now)
  /\ \E t \in PendingDeadlines :
       /\ Cardinality({x \in PendingDeadlines : x <= t}) <= Lookahead
       /\ t <= MaxTime
       /\ now' = t
  /\ Quiet
  /\ UNCHANGED <<pc, isLightShowPlaying, isAutoStartEnabled, pins, events,
                 hist, shows, vCount, pulses>>

Next == ReadByte \/ NoByte \/ Update \/ AutoStart \/ AutoSkip \/ Tick

Spec == Init /\ [][Next]_vars

(* A step of loop(): the position in the loop changes.                     *)
LoopStep == \E p \in {"serial", "update", "auto"} : p # pc /\ pc' = p

(* The same program under a fair main loop: loop() is called again and     *)
(* again, so that the position in it keeps changing (a step of the loop    *)
(* can be taken at every position), and time passes between iterations     *)
(* again and again, whenever an event is waiting for its deadline.         *)
SpecFair == Init /\ [][Next]_vars /\ WF_pc(LoopStep) /\ SF_vars(Tick)

(* ---------------------------------------------------------------------- *)
(* laserFlicker on its own: called once with any pulses argument, from any *)
(* level of the two pins.                                                  *)
(* ---------------------------------------------------------------------- *)
InitFlicker ==
  /\ now \in {0, stage1, stage2}
  /\ pc = "flicker"
  /\ isLightShowPlaying = FALSE
  /\ isAutoStartEnabled = TRUE
  /\ pins \in [{laser, led} -> {LOW, HIGH}]
  /\ events = <<>>
  /\ key = NoKey
  /\ result = 0
  /\ out = <<>>
  /\ hist = <<>>
  /\ shows = <<>>
  /\ vCount = 0
  /\ pulses \in 0..MaxPulses

Flicker ==
  /\ pc = "flicker"
  /\ Commit(Run(Cur, laserFlicker(pulses)))
  /\ pc' = "flickered"
  /\ UNCHANGED <<isAutoStartEnabled, key, vCount, pulses>>

NextFlicker == Flicker

SpecFlicker == InitFlicker /\ [][NextFlicker]_vars

(* ---------------------------------------------------------------------- *)
(* What the properties below refer to                                      *)
(* ---------------------------------------------------------------------- *)
(* The stage table of a show: the offsets and callbacks of its nine        *)
(* events, in registration order.                                          *)
Offsets == << 7000, 27500, 40000, 44000, 45000, 45000, 58000, 110000, 140000 >>

Callbacks ==
  << "lightShow_LasersWarmup", "lightShow_LEDOn", "lightShow_LasersOn",
     "lightShow_Pause", "lightShow_LEDOn", "lightShow_LasersOn",
     "lightShow_LEDOff", "lightShow_Stop", "lightShow_PlayTrack2" >>

(* The nine pending events of show k started at time t.                    *)
StageEvents(k, t) ==
  [i \in 1..9 |-> [show |-> k, stage |-> i, callback |-> Callbacks[i],
                   lastEventTime |-> t, period |-> Offsets[i]]]

Range(f) == {f[i] : i \in DOMAIN f}

(* The firings of show k so far, in the order they happened.               *)
Fired(k) == SelectSeq(hist, LAMBDA h : h.op = "fire" /\ h.show = k)

(* Positions in hist of the playMP3 calls for a track.                     *)
Played(trackName) ==
  {i \in DOMAIN hist : hist[i].op = "playMP3" /\ hist[i].what = trackName}

(* ---------------------------------------------------------------------- *)
(* C1: a call to lightShow_Start made while isLightShowPlaying is already  *)
(* true (a 'v' byte read during a show) registers no new stage events and  *)
(* makes no new playMP3 call.                                              *)
(* ---------------------------------------------------------------------- *)
C1_StartWhilePlayingIsNoOp ==
  [][(pc = "serial" /\ isLightShowPlaying) =>
       (events' = events /\ hist' = hist)]_vars

(* ---------------------------------------------------------------------- *)
(* C2: whatever status playMP3 returns, lightShow_Start sets               *)
(* isLightShowPlaying and registers the same nine events at the same       *)
(* offsets, and an update in which the track-2 stage fires leaves the same *)
(* state as it does when the status is 0.                                  *)
(* ---------------------------------------------------------------------- *)
C2_StatusIgnored ==
  [][/\ Len(shows') = Len(shows) + 1 =>
          /\ isLightShowPlaying'
          /\ events' = events \o StageEvents(Len(shows'), now)
          /\ pins' = pins
          /\ now' = now
     /\ pc = "update" =>
          LET m == update(Cur, 0)
          IN  /\ isLightShowPlaying' = m.isLightShowPlaying
              /\ pins' = m.pins
              /\ events' = m.events
              /\ hist' = m.hist
              /\ now' = m.now]_vars

(* A 'v' was dispatched, playMP3 failed, and the show is on with its       *)
(* events pending.                                                         *)
C2_Witness ==
  /\ key = KeyV
  /\ result # 0
  /\ isLightShowPlaying
  /\ Len(events) >= 9

(* ---------------------------------------------------------------------- *)
(* C3: in a run with a single lightShow_Start, the stages fire in the      *)
(* order warmup (7000), LED-on (27500), lasers-on (40000), pause (44000),  *)
(* LED-on and lasers-on (45000, in registration order), LED-off (58000),   *)
(* stop (110000), play-track-2 (140000), also when several are overdue in  *)
(* the same update.                                                        *)
(* ---------------------------------------------------------------------- *)
C3_StagesFireInOffsetOrder ==
  Len(shows) = 1 =>
    LET F == Fired(1)
    IN  \A i \in 1..Len(F) :
          /\ i <= 9
          /\ F[i].what = Callbacks[i]
          /\ F[i].n = Offsets[i]

(* One update of a single show fired pause, LED-on and lasers-on: the      *)
(* clock went from 40000 to 45000 between two iterations.                  *)
C3_Witness ==
  /\ Len(shows) = 1
  /\ pc = "auto"
  /\ out = << digitalWrite(laser, LOW), digitalWrite(led, LOW),
              digitalWrite(led, HIGH), digitalWrite(laser, HIGH) >>

(* ---------------------------------------------------------------------- *)
(* C4: each lightShow_Start calls playMP3("track001.mp3", 0) exactly once, *)
(* before any of its events is registered or fires; playMP3 of             *)
(* "track002.mp3" is called only by the 140000 ms stage, once per show,    *)
(* and in a run with a single start only after the stop stage has cleared  *)
(* isLightShowPlaying.                                                     *)
(* ---------------------------------------------------------------------- *)
C4_TrackCalls ==
  LET P1 == Played("track001.mp3")
      P2 == Played("track002.mp3")
  IN  /\ \A i \in DOMAIN hist :
           hist[i].op = "playMP3" => (i \in P1 \cup P2 /\ hist[i].n = 0)
      /\ {hist[i].show : i \in P1} = 1..Len(shows)
      /\ \A i \in P1 : \A j \in 1..(i - 1) : hist[j].show # hist[i].show
      /\ \A i \in P1 : \A j \in P1 : hist[i].show = hist[j].show => i = j
      /\ \A i \in P2 : \A j \in P2 : hist[i].show = hist[j].show => i = j
      /\ \A i \in P2 :
           /\ i > 1
           /\ hist[i - 1] = [op |-> "fire", show |-> hist[i].show,
                             what |-> "lightShow_PlayTrack2", n |-> 140000]
      /\ \A i \in DOMAIN hist :
           (hist[i].op = "fire" /\ hist[i].what = "lightShow_PlayTrack2") =>
             (i + 1) \in P2
      /\ (Len(shows) = 1 /\ P2 # {}) =>
           /\ ~isLightShowPlaying
           /\ \A i \in P2 : \E j \in 1..(i - 1) :
                hist[j].op = "fire" /\ hist[j].what = "lightShow_Stop"

(* A single show has run to its last stage and played track 2.             *)
C4_Witness ==
  /\ Len(shows) = 1
  /\ Played("track002.mp3") # {}

(* ---------------------------------------------------------------------- *)
(* C5: once a call to lightShow_Start has completed (auto-start or 'v'),   *)
(* isAutoStartEnabled is false by the end of that loop iteration and from  *)
(* then on.                                                                *)
(* ---------------------------------------------------------------------- *)
C5_AutoStartClearedByAnyStart ==
  (Len(shows) >= 1 /\ pc = "serial") => ~isAutoStartEnabled

(* ---------------------------------------------------------------------- *)
(* C6: the auto-start branch of loop() calls lightShow_Start at most once: *)
(* it is taken only with isAutoStartEnabled true, it leaves the flag       *)
(* false, and no step sets the flag back to true.                          *)
(* ---------------------------------------------------------------------- *)
C6_AutoStartAtMostOnce ==
  [][/\ ~isAutoStartEnabled => ~isAutoStartEnabled'
     /\ (pc = "auto" /\ shows' # shows) =>
          (isAutoStartEnabled /\ ~isAutoStartEnabled')]_vars

(* The auto-start has fired, a 'v' has started a second show, and the flag *)
(* is still false.                                                         *)
C6_Witness ==
  /\ ~isAutoStartEnabled
  /\ vCount = 1
  /\ Len(shows) = 2

(* ---------------------------------------------------------------------- *)
(* C7: at most nine events are pending in the timer at any time.           *)
(* ---------------------------------------------------------------------- *)
C7_AtMostNinePending == Len(events) <= 9

(* ---------------------------------------------------------------------- *)
(* C8: each event a lightShow_Start registered fires at most once and not  *)
(* before its offset has passed since that start; once fired it is no      *)
(* longer pending.                                                         *)
(* ---------------------------------------------------------------------- *)
FireOf(e) ==
  [op |-> "fire", show |-> e.show, what |-> e.callback, n |-> e.period]

C8_FiresOnceNotEarly ==
  [][/\ \A i \in 1..Len(events) :
          events[i] \notin Range(events') =>
            /\ now >= shows[events[i].show] + Offsets[events[i].stage]
            /\ FireOf(events[i]) \notin Range(hist)
            /\ Cardinality({j \in (Len(hist) + 1)..Len(hist') :
                              hist'[j] = FireOf(events[i])}) = 1
     /\ \A j \in (Len(hist) + 1)..Len(hist') :
          hist'[j].op = "fire" =>
            /\ [hist'[j] EXCEPT !.op = "after"] \in Range(hist)
            /\ \E i \in 1..Len(events) :
                 /\ FireOf(events[i]) = hist'[j]
                 /\ events[i] \notin Range(events')
     /\ SubSeq(hist', 1, Len(hist)) = hist
     /\ {FireOf(e) : e \in Range(events')} \cap Range(hist') = {}]_vars

(* Two stages of a single show have fired and the other seven are still    *)
(* pending.                                                                *)
C8_Witness ==
  /\ Len(shows) = 1
  /\ Len(Fired(1)) = 2
  /\ Len(events) = 7

Hold(level, ms) ==
  << [op |-> "write", pin |-> 5, level |-> level, ms |-> 0],
     [op |-> "delay", pin |-> 0, level |-> "-", ms |-> ms] >>

PulsePattern ==
  Hold("HIGH", 25) \o Hold("LOW", 50) \o Hold("HIGH", 25) \o Hold("LOW", 50)
    \o Hold("HIGH", 25) \o Hold("LOW", 150)

C10_FlickerPattern ==
  [][pc = "flicker" =>
       /\ Len(out') = 12 * pulses
       /\ \A i \in 1..Len(out') : out'[i] = PulsePattern[((i - 1) % 12) + 1]
       /\ \A i \in 1..Len(out') : out'[i].pin # 9
       /\ now' = now + 325 * pulses
       /\ pins'[5] = IF pulses > 0 THEN "LOW" ELSE pins[5]
       /\ pins'[9] = pins[9]]_vars

(* laserFlicker(3) has run with the LED pin HIGH: the laser pin is LOW.    *)
C10_Witness ==
  /\ pc = "flickered"
  /\ pulses = 3
  /\ Len(out) = 36
  /\ pins[5] = "LOW"
  /\ pins[9] = "HIGH"

(* ---------------------------------------------------------------------- *)
(* C11: under a fair main loop, every lightShow_Start (its stop stage is   *)
(* pending, and due within the time the model runs for) is eventually      *)
(* followed by a state in which isLightShowPlaying is false, whatever      *)
(* playMP3 returned and whatever bytes arrive.                             *)
(* ---------------------------------------------------------------------- *)
StopPending ==
  \E i \in 1..Len(events) :
    /\ events[i].callback = "lightShow_Stop"
    /\ Deadline(events[i]) <= MaxTime

C11_ShowRunsToStop == StopPending ~> ~isLightShowPlaying

(* Two shows were started, the first with a failed playMP3 of a 'v', and   *)
(* the stop stage of the second has just fired: the flag is false.         *)
C11_Witness ==
  /\ Len(shows) = 2
  /\ vCount = 1
  /\ pc = "auto"
  /\ ~isLightShowPlaying
  /\ Len(hist) > 0
  /\ hist[Len(hist)] = [op |-> "fire", show |-> 2, what |-> "lightShow_Stop",
                        n |-> 110000]

(* ---------------------------------------------------------------------- *)
(* C12: isLightShowPlaying changes in two places only: lightShow_Start     *)
(* sets it and the stop stage clears it. A timer update in which no stop   *)
(* stage fires (warmup, LED-on, lasers-on, pause, LED-off, play-track-2)   *)
(* leaves it as it was, and no timer update changes isAutoStartEnabled.    *)
(* ---------------------------------------------------------------------- *)
(* The calls and firings a step adds to the history.                       *)
NewHist == {hist'[j] : j \in (Len(hist) + 1)..Len(hist')}

StopFires == \E h \in NewHist : h.op = "fire" /\ h.what = "lightShow_Stop"

C12_FlagFrame ==
  [][/\ isLightShowPlaying' # isLightShowPlaying =>
          IF isLightShowPlaying' THEN shows' # shows ELSE StopFires
     /\ shows' # shows => isLightShowPlaying'
     /\ StopFires => ~isLightShowPlaying'
     /\ pc = "update" =>
          /\ isAutoStartEnabled' = isAutoStartEnabled
          /\ ~StopFires => isLightShowPlaying' = isLightShowPlaying]_vars

(* A timer update has fired the pause stage, with both flags true before   *)
(* and after it.                                                           *)
C12_Witness ==
  /\ pc = "auto"
  /\ isLightShowPlaying
  /\ isAutoStartEnabled
  /\ Len(hist) > 0
  /\ hist[Len(hist)].op = "fire"
  /\ hist[Len(hist)].what = "lightShow_Pause"

(* ---------------------------------------------------------------------- *)
(* C13: an iteration of loop() dispatches at most one byte, then runs      *)
(* t.update(), then tests the auto-start condition, in that order: a 'v'   *)
(* calls lightShow_Start before the events due in that iteration fire, and *)
(* the auto-start test sees the flag as the update left it, so a stop      *)
(* stage fired by the update lets the same iteration auto-start.           *)
(* ---------------------------------------------------------------------- *)
C13_LoopOrder ==
  [][/\ (pc = "serial" /\ pc' # pc) =>
          /\ pc' = "update"
          /\ \A h \in NewHist : h.op # "fire"
          /\ key' = KeyV =>
               /\ shows' = Append(shows, now)
               /\ events' = events \o StageEvents(Len(shows'), now)
          /\ key' # KeyV => (shows' = shows /\ events' = events)
     /\ pc = "update" =>
          /\ pc' = "auto"
          /\ key' = NoKey
          /\ shows' = shows
          /\ \A h \in NewHist : h.op # "after"
          /\ \A i \in 1..Len(events) :
               IsDue(events[i], now) => events[i] \notin Range(events')
     /\ pc = "auto" =>
          /\ pc' = "serial"
          /\ key' = NoKey
          /\ \A h \in NewHist : h.op # "fire"
          /\ shows' # shows <=> (~isLightShowPlaying /\ isAutoStartEnabled)]_vars

(* The show a 'v' started in the first iteration was stopped by an update, *)
(* and the auto-start test of the same iteration started the second show:  *)
(* its playMP3 call follows the firing of the stop stage directly.         *)
C13_Witness ==
  /\ pc = "serial"
  /\ Len(shows) = 2
  /\ vCount = 1
  /\ shows[2] = shows[1] + 110000
  /\ \E j \in 2..Len(hist) :
       /\ hist[j] = [op |-> "playMP3", show |-> 2, what |-> "track001.mp3",
                     n |-> 0]
       /\ hist[j - 1] = [op |-> "fire", show |-> 1, what |-> "lightShow_Stop",
                         n |-> 110000]

(* ---------------------------------------------------------------------- *)
(* C14: the warmup stage blocks for 11225 ms (23 flicker pulses of 325 ms  *)
(* and 3750 ms of delays) and leaves the laser pin HIGH and the LED pin as *)
(* it was. In a run with a single lightShow_Start, a warmup that begins at *)
(* its offset of 7000 ms returns before the deadline of the next stage     *)
(* (27500 ms): no event of the show is overdue when it returns.            *)
(* ---------------------------------------------------------------------- *)
(* The step fires the warmup stage and no other event.                     *)
WarmupOnly ==
  /\ pc = "update"
  /\ Len(hist') = Len(hist) + 1
  /\ hist'[Len(hist')].op = "fire"
  /\ hist'[Len(hist')].what = "lightShow_LasersWarmup"

C14_WarmupBlocking ==
  [][WarmupOnly =>
       /\ now' = now + 11225
       /\ Cardinality({i \in 1..Len(out') : out'[i] = delay(150)}) = 23
       /\ Blocked(out', 1, Len(out')) = 23 * 325 + 3750
       /\ out'[Len(out')] = digitalWrite(5, "HIGH")
       /\ pins'[5] = "HIGH"
       /\ pins'[9] = pins[9]
       /\ (Len(shows) = 1 /\ now = shows[1] + 7000) =>
            /\ now' < shows[1] + 27500
            /\ \A i \in 1..Len(events') : ~IsDue(events'[i], now')]_vars

(* The warmup stage of a single show began at 7000 ms and has returned at  *)
(* 18225 ms, the laser pin HIGH and the other eight events pending.        *)
C14_Witness ==
  /\ pc = "auto"
  /\ Len(shows) = 1
  /\ now = shows[1] + 18225
  /\ pins[5] = "HIGH"
  /\ Len(events) = 8
  /\ Len(out) = 286

(* ---------------------------------------------------------------------- *)
(* C15: in every state between the steps of loop(), whatever 'v' bytes     *)
(* were read, isLightShowPlaying is true only while the stop stage of some *)
(* show is pending in the timer.                                           *)
(* ---------------------------------------------------------------------- *)
PendingStops ==
  {i \in 1..Len(events) : events[i].callback = "lightShow_Stop"}

C15_PlayingHasStopPending == isLightShowPlaying => PendingStops # {}

(* The first show has been stopped and a 'v' has started a second one: the *)
(* flag is true again and the only stop stage pending is the second        *)
(* show's.                                                                 *)
C15_Witness ==
  /\ isLightShowPlaying
  /\ Len(shows) = 2
  /\ \E j \in 1..Len(hist) :
       hist[j] = [op |-> "fire", show |-> 1, what |-> "lightShow_Stop",
                  n |-> 110000]
  /\ {events[i].show : i \in PendingStops} = {2}

(* ---------------------------------------------------------------------- *)
(* C16: in every state between the steps of loop(), whatever 'v' bytes     *)
(* were read, isLightShowPlaying is false only when the laser pin and the  *)
(* LED pin are LOW and no pending event will set either of them HIGH.      *)
(* ---------------------------------------------------------------------- *)
(* The callbacks that leave a pin HIGH.                                    *)
SetsPinHigh ==
  {"lightShow_LasersWarmup", "lightShow_LasersOn", "lightShow_LEDOn"}

C16_IdleMeansDark ==
  ~isLightShowPlaying =>
    /\ pins[5] = "LOW"
    /\ pins[9] = "LOW"
    /\ \A i \in 1..Len(events) : events[i].callback \notin SetsPinHigh

====
